---- MODULE Spec2Model ----
(***************************************************************************)
(* Model of streamlit_app.py: the FFmpeg control dashboard.                *)
(*                                                                         *)
(* State: the module-level handle ffmpeg_process, the table of child       *)
(* processes the operating system holds for it (their pipes and signals),  *)
(* and, for every caller, its position inside start_ffmpeg / stop_ffmpeg   *)
(* with the locals of the call.  Texts that the code takes apart           *)
(* (rtmp_url, audio_option, the lines of the diagnostic stream) are        *)
(* sequences of one-character strings; Str turns one into a string.        *)
(***************************************************************************)
EXTENDS Integers, Sequences, FiniteSets, TLC

\* ------------------------------------------------------------------ bounds
MaxProcs == 2     \* children spawned in one behaviour
MaxLines == 1     \* lines a child writes to its diagnostic stream
PipeCap  == 1     \* chunks the (never read) stdout pipe holds before a write blocks

\* ------------------------------------------------------------ text helpers
RECURSIVE Str(_)
Str(cs) == IF cs = <<>> THEN "" ELSE Head(cs) \o Str(Tail(cs))

StartsWith(s, p) == Len(s) >= Len(p) /\ SubSeq(s, 1, Len(p)) = p

\* str.find: the first index at which sep occurs in s, 0 when it does not
Find(s, sep) ==
    LET hits == {i \in 1..(Len(s) - Len(sep) + 1) : SubSeq(s, i, i + Len(sep) - 1) = sep}
    IN  IF hits = {} THEN 0 ELSE CHOOSE i \in hits : \A j \in hits : i <= j

\* str.split(sep): every piece
RECURSIVE Split(_, _)
Split(s, sep) ==
    LET i == Find(s, sep)
    IN  IF i = 0 THEN <<s>>
        ELSE <<SubSeq(s, 1, i - 1)>> \o Split(SubSeq(s, i + Len(sep), Len(s)), sep)

\* str.split(sep, 1): at most one cut
Split1(s, sep) ==
    LET i == Find(s, sep)
    IN  IF i = 0 THEN <<s>>
        ELSE <<SubSeq(s, 1, i - 1), SubSeq(s, i + Len(sep), Len(s))>>

\* str.replace(old, new): every non-overlapping occurrence, left to right;
\* an empty old matches before every character and at the end
RECURSIVE Replace(_, _, _)
Replace(s, old, new) ==
    IF old = <<>>
    THEN IF s = <<>> THEN new ELSE new \o <<Head(s)>> \o Replace(Tail(s), old, new)
    ELSE IF s = <<>> THEN <<>>
    ELSE IF StartsWith(s, old)
         THEN new \o Replace(SubSeq(s, Len(old) + 1, Len(s)), old, new)
         ELSE <<Head(s)>> \o Replace(Tail(s), old, new)

Whitespace == {" ", "\n", "\t", "\r"}

\* str.strip()
RECURSIVE Strip(_)
Strip(s) ==
    IF s = <<>> THEN <<>>
    ELSE IF Head(s) \in Whitespace THEN Strip(Tail(s))
    ELSE IF s[Len(s)] \in Whitespace THEN Strip(SubSeq(s, 1, Len(s) - 1))
    ELSE s

\* sep.join(list) on a list of strings
RECURSIVE Join(_, _)
Join(list, sep) ==
    IF list = <<>> THEN ""
    ELSE IF Len(list) = 1 THEN list[1]
    ELSE list[1] \o sep \o Join(Tail(list), sep)

Digit == <<"0", "1", "2", "3", "4", "5", "6", "7", "8", "9">>

\* str(n) of a natural number
RECURSIVE IntStr(_)
IntStr(n) == IF n < 10 THEN Digit[n + 1] ELSE IntStr(n \div 10) \o Digit[(n % 10) + 1]

\* --------------------------------------------------------- resolve_hostname
Rtmp  == <<"r", "t", "m", "p", ":", "/", "/">>
Rtmps == <<"r", "t", "m", "p", "s", ":", "/", "/">>
SchemeSep == <<":", "/", "/">>

NeedsLookup(url) == StartsWith(url, Rtmp) \/ StartsWith(url, Rtmps)

\* hostname = rest.split('/')[0], rest the part after the first '://'
HostOf(url) == Split(Split1(url, SchemeSep)[2], <<"/">>)[1]

ResolveFail_Ignored(url, hostname) == [url |-> url, error |-> ""]

\* the except branch: (None, "Failed to resolve hostname: ...")
ResolveFail(url, hostname) ==
    [url |-> <<>>, error |-> "Failed to resolve hostname: " \o Str(hostname)]

\* dns is the outcome of socket.gethostbyname: <<>> for gaierror, else the address
resolve_hostname(url, dns) ==
    IF NeedsLookup(url)
    THEN IF dns # <<>>
         THEN [url |-> Replace(url, HostOf(url), dns), error |-> ""]
         ELSE ResolveFail(url, HostOf(url))
    ELSE [url |-> url, error |-> ""]

\* ----------------------------------------------------- build_ffmpeg_command
resolution_map ==
    [l \in {"720p", "480p", "360p", "180p", "1080p", "4K"} |->
        CASE l = "720p"  -> "1280x720"
          [] l = "480p"  -> "854x480"
          [] l = "360p"  -> "640x360"
          [] l = "180p"  -> "320x180"
          [] l = "1080p" -> "1920x1080"
          [] l = "4K"    -> "3840x2160"]

ResStr_WrongDefault(resolution) ==
    IF resolution \in DOMAIN resolution_map THEN resolution_map[resolution] ELSE "1920x1080"

\* resolution_map.get(resolution, "1280x720")
ResStr(resolution) ==
    IF resolution \in DOMAIN resolution_map THEN resolution_map[resolution] ELSE "1280x720"

CopyAudio == "Copy Audio from File"

LogoArgs(logo_url, overlay_settings, enable_logo) ==
    IF enable_logo
    THEN <<"-i", logo_url, "-filter_complex",
           "[1]scale=iw*0.6:-1[wm];[0][wm]" \o overlay_settings>>
    ELSE <<>>

FpsArgs(fps) == IF fps # 0 THEN <<"-r", IntStr(fps)>> ELSE <<>>

AudioArgs(audio_option) ==
    IF Str(audio_option) = CopyAudio
    THEN <<"-c:a", "copy">>
    ELSE LET parts == Split(audio_option, <<"|">>)
         IN  <<"-ac", Str(parts[1]), "-b:a", Str(parts[2])>>

EncodingTail ==
    <<"-ar", "44100", "-pix_fmt", "yuv420p", "-tune", "zerolatency",
      "-maxrate", "2000k", "-preset", "veryfast", "-vcodec", "libx264",
      "-ab", "128k", "-vb", "660k", "-f", "flv">>

\* the list the function builds, rtmp_url already a string
Command(video_url, logo_url, overlay_settings, enable_logo, resolution, rtmp_url, fps, audio_option) ==
    <<"ffmpeg", "-re", "-y", "-i", video_url>>
      \o LogoArgs(logo_url, overlay_settings, enable_logo)
      \o <<"-s", ResStr(resolution)>>
      \o FpsArgs(fps)
      \o AudioArgs(audio_option)
      \o EncodingTail
      \o <<rtmp_url>>

\* return command, ' '.join(command)
build_ffmpeg_command(video_url, logo_url, overlay_settings, enable_logo, resolution, rtmp_url, fps, audio_option) ==
    LET command == Command(video_url, logo_url, overlay_settings, enable_logo,
                           resolution, rtmp_url, fps, audio_option)
    IN  [command |-> command, command_str |-> Join(command, " ")]

\* ------------------------------------------------------------------- state
None == 0                      \* ffmpeg_process = None; a child is named by its pid >= 1
Threads == {1, 2}              \* script threads that may call the two functions
Pids == 1..MaxProcs
WaitTimeout == 10              \* ffmpeg_process.wait(timeout=10)

VARIABLES
    ffmpeg_process,   \* the module-level handle: None or the pid of a Popen object
    procs,            \* pid -> the child process and its pipes
    callers,          \* the threads that run the script
    pc,               \* thread -> its position in start_ffmpeg / stop_ffmpeg
    call              \* thread -> the locals and the result of its current (or last) call

vars == <<ffmpeg_process, procs, callers, pc, call>>

\* a pid no Popen has used yet
NoProc ==
    [state |-> "none", errbuf |-> <<>>, errOpen |-> FALSE, nerr |-> 0,
     outFill |-> 0, sigint |-> FALSE]

\* what is left of a child that has exited: the diagnostics still in the pipe
Exited(proc) == [NoProc EXCEPT !.state = "exited", !.errbuf = proc.errbuf]

\* the child right after subprocess.Popen(..., stdout=PIPE, stderr=PIPE, text=True)
NewProc == [NoProc EXCEPT !.state = "running", !.errOpen = TRUE]

Alive(p) == procs[p].state \in {"running", "blocked"}

Poll_NeverNone(p) == FALSE

\* Popen.poll() is None: the child has not exited
PollIsNone(p) == Alive(p)

\* the diagnostic stream is at end-of-stream for its reader
AtEof(p) == procs[p].errbuf = <<>> /\ ~procs[p].errOpen

NoCall ==
    [fn |-> "none", prev |-> "none", entry |-> None, form |-> <<>>, dns |-> "none",
     resolved_rtmp_url |-> "", command |-> <<>>, command_str |-> "", argv |-> <<>>, guard |-> "none", spawned |-> None,
     obj |-> None, lines |-> <<>>, elapsed |-> 0, sent |-> FALSE, expired |-> FALSE,
     result |-> "none", output |-> "", logs |-> "", cmd |-> ""]

\* line 8, before any button was pressed
InitWith(cs) ==
    /\ ffmpeg_process = None
    /\ procs = [p \in Pids |-> NoProc]
    /\ callers = cs
    /\ pc = [t \in Threads |-> "idle"]
    /\ call = [t \in Threads |-> NoCall]

Init == InitWith({1})

\* ------------------------------------------------------------------ inputs
\* what one field of the form may hold
Form(video, logo, overlay, enable, res, fps, audio, rtmp) ==
    [video_url : video, logo_url : logo, overlay_settings : overlay, enable_logo : enable,
     resolution : res, fps : fps, audio_option : audio, rtmp_url : rtmp]

VideoUrls   == {"https://src/in.m3u8"}
LogoUrls    == {"https://src/logo.png"}
Overlays    == {"overlay=W-w-45:37"}
AudioCopy   == <<"C", "o", "p", "y", " ", "A", "u", "d", "i", "o", " ",
                 "f", "r", "o", "m", " ", "F", "i", "l", "e">>
UrlPlain    == Rtmp \o <<"h", "/", "k">>        \* rtmp://h/k
UrlSecure   == Rtmps \o <<"h", "/", "h">>       \* rtmps://h/h: the host again in the path
UrlStdout   == <<"-">>                          \* not an rtmp url: ffmpeg's standard output

\* the whole form: every option of the three select boxes (lines 158-160), a
\* label and a rate no select box offers, both states of the check box
AllForms ==
    Form(VideoUrls, LogoUrls, Overlays, BOOLEAN,
         {"4K", "1080p", "720p", "480p", "360p", "180p", "240p"},
         {0, 24, 30, 60},
         {AudioCopy, <<"1", "|", "1", "2", "8", "k">>, <<"2", "|", "1", "2", "8", "k">>,
          <<"2", "|", "2", "5", "6", "k">>},
         {UrlPlain, UrlSecure, UrlStdout})

\* the forms the process life cycle is explored with
Forms ==
    Form(VideoUrls, LogoUrls, Overlays, {TRUE}, {"720p"}, {30}, {AudioCopy},
         {UrlSecure, UrlStdout})

Addresses   == {<<"9", ".", "9">>}
DnsOutcomes == Addresses \cup {<<>>}     \* <<>>: socket.gaierror
Lines == {<<"\n">>, <<"f", "=", "1", " ", "\n">>}

AttrError(name) == "'NoneType' object has no attribute '" \o name \o "'"
SpawnError == "[Errno 2] No such file or directory: 'ffmpeg'"
SignalError == "[Errno 1] Operation not permitted"
AlreadyRunning ==
    "A stream is already running. Please stop the current stream before starting a new one."

\* a return statement of either function
\* the locals of a call end with it
Ended(c) ==
    [c EXCEPT !.resolved_rtmp_url = "", !.command = <<>>, !.command_str = "", !.obj = None, !.lines = <<>>,
              !.elapsed = 0]

Return(c, output, logs, cmd) ==
    [Ended(c) EXCEPT !.result = "return", !.output = output, !.logs = logs, !.cmd = cmd]

\* except Exception as e: return f"An error occurred: {e}", "", command_str
StartExcept(c, e) == Return(c, "An error occurred: " \o e, "", c.command_str)

Begin(t, fn) ==
    [NoCall EXCEPT !.fn = fn, !.prev = call[t].fn, !.entry = ffmpeg_process]

\* ------------------------------------------------------------- start_ffmpeg
\* lines 87-91: resolve the destination, return on error, build the command
StartWith(t, forms) ==
    /\ t \in callers
    /\ pc[t] = "idle"
    /\ \E f \in forms, dns \in DnsOutcomes :
        LET r == resolve_hostname(f.rtmp_url, dns)
            b == build_ffmpeg_command(f.video_url, f.logo_url, f.overlay_settings,
                                      f.enable_logo, f.resolution, Str(r.url), f.fps,
                                      f.audio_option)
            c == [Begin(t, "start") EXCEPT
                    !.form = f,
                    !.dns = IF ~NeedsLookup(f.rtmp_url) THEN "none"
                            ELSE IF dns = <<>> THEN "fail" ELSE "ok"]
        IN  IF r.error # ""
            THEN /\ call' = [call EXCEPT ![t] = Return(c, r.error, "", "")]
                 /\ pc' = pc
            ELSE /\ call' = [call EXCEPT ![t] =
                        [c EXCEPT !.resolved_rtmp_url = Str(r.url),
                                  !.command = b.command, !.command_str = b.command_str]]
                 /\ pc' = [pc EXCEPT ![t] = "guard"]
    /\ UNCHANGED <<ffmpeg_process, procs, callers>>

StartCall(t) == StartWith(t, Forms)

\* what the handle names at the moment the guard of line 94 looks at it
Observed ==
    IF ffmpeg_process = None THEN "absent"
    ELSE IF Alive(ffmpeg_process) THEN "running" ELSE "exited"

\* line 94, left operand: if ffmpeg_process ...
StartGuard(t) ==
    /\ t \in callers
    /\ pc[t] = "guard"
    /\ IF ffmpeg_process = None
       THEN /\ call' = [call EXCEPT ![t].guard = Observed]
            /\ pc' = [pc EXCEPT ![t] = "popen"]
       ELSE /\ call' = call
            /\ pc' = [pc EXCEPT ![t] = "poll"]
    /\ UNCHANGED <<ffmpeg_process, procs, callers>>

\* line 94, right operand: ... and ffmpeg_process.poll() is None; line 95
StartPoll(t) ==
    /\ t \in callers
    /\ pc[t] = "poll"
    /\ IF ffmpeg_process = None
       THEN /\ call' = [call EXCEPT ![t] =
                            StartExcept([call[t] EXCEPT !.guard = Observed], AttrError("poll"))]
            /\ pc' = [pc EXCEPT ![t] = "idle"]
       ELSE IF PollIsNone(ffmpeg_process)
       THEN /\ call' = [call EXCEPT ![t] =
                            Return([call[t] EXCEPT !.guard = Observed],
                                   AlreadyRunning, "", call[t].command_str)]
            /\ pc' = [pc EXCEPT ![t] = "idle"]
       ELSE /\ call' = [call EXCEPT ![t].guard = Observed]
            /\ pc' = [pc EXCEPT ![t] = "popen"]
    /\ UNCHANGED <<ffmpeg_process, procs, callers>>

\* lines 98-99: subprocess.Popen raises, or the child runs and the handle names it
StartPopen(t) ==
    /\ t \in callers
    /\ pc[t] = "popen"
    /\ \E spawns \in BOOLEAN :
        IF spawns
        THEN /\ \E p \in Pids :
                    /\ procs[p].state = "none"
                    /\ \A q \in Pids : q < p => procs[q].state # "none"
                    /\ procs' = [procs EXCEPT ![p] = NewProc]
                    /\ ffmpeg_process' = p
                    /\ call' = [call EXCEPT ![t].spawned = p,
                                            ![t].argv = call[t].command,
                                            ![t].output = "Command executed successfully."]
             /\ pc' = [pc EXCEPT ![t] = "iter"]
        ELSE /\ call' = [call EXCEPT ![t] = StartExcept(call[t], SpawnError)]
             /\ pc' = [pc EXCEPT ![t] = "idle"]
             /\ UNCHANGED <<ffmpeg_process, procs>>
    /\ UNCHANGED callers

\* line 103: iter(ffmpeg_process.stderr.readline, '') binds the stream to read
StartIter(t) ==
    /\ t \in callers
    /\ pc[t] = "iter"
    /\ IF ffmpeg_process = None
       THEN /\ call' = [call EXCEPT ![t] = StartExcept(call[t], AttrError("stderr"))]
            /\ pc' = [pc EXCEPT ![t] = "idle"]
       ELSE /\ call' = [call EXCEPT ![t].obj = ffmpeg_process]
            /\ pc' = [pc EXCEPT ![t] = "read"]
    /\ UNCHANGED <<ffmpeg_process, procs, callers>>

IsSentinel_Stripped(line) == Strip(line) = <<>>

\* iter(..., ''): the loop ends when readline returns ''
IsSentinel(line) == line = <<>>

\* lines 103-107: one readline; it blocks while the stream is open and empty
StartReadline(t) ==
    /\ t \in callers
    /\ pc[t] = "read"
    /\ LET p == call[t].obj
           line == IF procs[p].errbuf # <<>> THEN Head(procs[p].errbuf) ELSE <<>>
       IN  /\ procs[p].errbuf # <<>> \/ ~procs[p].errOpen
           /\ IF IsSentinel(line)
              THEN /\ pc' = [pc EXCEPT ![t] = "finish"]
                   /\ UNCHANGED <<procs, call>>
              ELSE /\ procs' = [procs EXCEPT ![p].errbuf = Tail(@)]
                   /\ call' = [call EXCEPT ![t].lines = Append(@, Str(Strip(line)))]
                   /\ pc' = pc
    /\ UNCHANGED <<ffmpeg_process, callers>>

\* lines 109-111
StartFinish(t) ==
    /\ t \in callers
    /\ pc[t] = "finish"
    /\ IF ffmpeg_process = None
       THEN call' = [call EXCEPT ![t] = StartExcept(call[t], AttrError("poll"))]
       ELSE call' = [call EXCEPT ![t] =
                Return(call[t],
                       IF PollIsNone(ffmpeg_process)
                       THEN call[t].output \o "\nStreaming in progress..."
                       ELSE call[t].output,
                       Join(call[t].lines, "\n"), call[t].command_str)]
    /\ pc' = [pc EXCEPT ![t] = "idle"]
    /\ UNCHANGED <<ffmpeg_process, procs, callers>>

\* -------------------------------------------------------------- stop_ffmpeg
\* except Exception as e: output = f"An error occurred while stopping the stream: {e}"
StopExcept(c, e) == [c EXCEPT !.output = "An error occurred while stopping the stream: " \o e]

\* lines 119, 134-137
StopCall(t) ==
    /\ t \in callers
    /\ pc[t] = "idle"
    /\ IF ffmpeg_process = None
       THEN /\ call' = [call EXCEPT ![t] =
                            Return(Begin(t, "stop"), "No stream is running.", "", "")]
            /\ pc' = pc
       ELSE /\ call' = [call EXCEPT ![t] = Begin(t, "stop")]
            /\ pc' = [pc EXCEPT ![t] = "sigint"]
    /\ UNCHANGED <<ffmpeg_process, procs, callers>>

AfterSignalError_Kill == "kill"

\* where an exception of send_signal lands: the handler of line 130, then finally
AfterSignalError == "finally"

\* line 122: send_signal(SIGINT) polls first and leaves an exited child alone;
\* otherwise os.kill delivers the signal or raises
StopSendSignal(t) ==
    /\ t \in callers
    /\ pc[t] = "sigint"
    /\ IF ffmpeg_process = None
       THEN /\ call' = [call EXCEPT ![t] = StopExcept(call[t], AttrError("send_signal"))]
            /\ pc' = [pc EXCEPT ![t] = AfterSignalError]
            /\ procs' = procs
       ELSE IF ~Alive(ffmpeg_process)
       THEN /\ pc' = [pc EXCEPT ![t] = "wait"]
            /\ UNCHANGED <<procs, call>>
       ELSE \E delivered \in BOOLEAN :
            IF delivered
            THEN /\ procs' = [procs EXCEPT ![ffmpeg_process].sigint = TRUE]
                 /\ pc' = [pc EXCEPT ![t] = "wait"]
                 /\ call' = [call EXCEPT ![t].sent = TRUE]
            ELSE /\ call' = [call EXCEPT ![t] = StopExcept(call[t], SignalError)]
                 /\ pc' = [pc EXCEPT ![t] = AfterSignalError]
                 /\ procs' = procs
    /\ UNCHANGED <<ffmpeg_process, callers>>

\* line 124: ffmpeg_process.wait(timeout=10) is entered
StopWaitEnter(t) ==
    /\ t \in callers
    /\ pc[t] = "wait"
    /\ IF ffmpeg_process = None
       THEN /\ call' = [call EXCEPT ![t] = StopExcept(call[t], AttrError("wait"))]
            /\ pc' = [pc EXCEPT ![t] = "finally"]
       ELSE /\ call' = [call EXCEPT ![t].obj = ffmpeg_process, ![t].elapsed = 0]
            /\ pc' = [pc EXCEPT ![t] = "waiting"]
    /\ UNCHANGED <<ffmpeg_process, procs, callers>>

\* a second of the wait passes with the child still there
StopWaitTick(t) ==
    /\ t \in callers
    /\ pc[t] = "waiting"
    /\ Alive(call[t].obj)
    /\ call[t].elapsed < WaitTimeout
    /\ call' = [call EXCEPT ![t].elapsed = @ + 1]
    /\ UNCHANGED <<ffmpeg_process, procs, callers, pc>>

\* lines 124-125: the child exited within the wait
StopWaitDone(t) ==
    /\ t \in callers
    /\ pc[t] = "waiting"
    /\ ~Alive(call[t].obj)
    /\ call' = [call EXCEPT ![t].output = "Stream stopped."]
    /\ pc' = [pc EXCEPT ![t] = "finally"]
    /\ UNCHANGED <<ffmpeg_process, procs, callers>>

\* lines 126-127: subprocess.TimeoutExpired
StopWaitTimeout(t) ==
    /\ t \in callers
    /\ pc[t] = "waiting"
    /\ Alive(call[t].obj)
    /\ call[t].elapsed = WaitTimeout
    /\ call' = [call EXCEPT ![t].output =
                    "Stopping the stream took too long. Forcing termination.",
                            ![t].expired = TRUE]
    /\ pc' = [pc EXCEPT ![t] = "kill"]
    /\ UNCHANGED <<ffmpeg_process, procs, callers>>

\* an exception inside the handler of line 126 leaves through finally
StopRaise(c, e) == [c EXCEPT !.result = "raise", !.output = e]

\* Popen.kill(): SIGKILL ends a child that is still there
Killed(proc) == IF proc.state = "exited" THEN proc ELSE Exited(proc)

\* line 128: ffmpeg_process.kill(); SIGKILL ends a child that is still there
StopKill(t) ==
    /\ t \in callers
    /\ pc[t] = "kill"
    /\ IF ffmpeg_process = None
       THEN /\ call' = [call EXCEPT ![t] = StopRaise(call[t], AttrError("kill"))]
            /\ pc' = [pc EXCEPT ![t] = "finally"]
            /\ procs' = procs
       ELSE /\ procs' = [procs EXCEPT ![ffmpeg_process] = Killed(@)]
            /\ pc' = [pc EXCEPT ![t] = "kwait"]
            /\ call' = call
    /\ UNCHANGED <<ffmpeg_process, callers>>

\* line 129: ffmpeg_process.wait() is entered
StopKillWaitEnter(t) ==
    /\ t \in callers
    /\ pc[t] = "kwait"
    /\ IF ffmpeg_process = None
       THEN /\ call' = [call EXCEPT ![t] = StopRaise(call[t], AttrError("wait"))]
            /\ pc' = [pc EXCEPT ![t] = "finally"]
       ELSE /\ call' = [call EXCEPT ![t].obj = ffmpeg_process]
            /\ pc' = [pc EXCEPT ![t] = "kwaiting"]
    /\ UNCHANGED <<ffmpeg_process, procs, callers>>

\* line 129: wait() returns once the child has exited
StopKillWaitDone(t) ==
    /\ t \in callers
    /\ pc[t] = "kwaiting"
    /\ ~Alive(call[t].obj)
    /\ pc' = [pc EXCEPT ![t] = "finally"]
    /\ UNCHANGED <<ffmpeg_process, procs, callers, call>>

HandleAfterStop_Kept(h) == h

\* line 133: ffmpeg_process = None
HandleAfterStop(h) == None

\* lines 132-133, then line 137 (or the exception goes on to the caller)
StopFinally(t) ==
    /\ t \in callers
    /\ pc[t] = "finally"
    /\ ffmpeg_process' = HandleAfterStop(ffmpeg_process)
    /\ call' = [call EXCEPT ![t] =
                    IF call[t].result = "raise" THEN Ended(call[t])
                    ELSE Return(call[t], call[t].output, "", "")]
    /\ pc' = [pc EXCEPT ![t] = "idle"]
    /\ UNCHANGED <<procs, callers>>

\* ---------------------------------------------------------------- the child
\* the child writes a line of diagnostics
ChildStderr(p) ==
    /\ procs[p].state = "running"
    /\ procs[p].errOpen
    /\ procs[p].nerr < MaxLines
    /\ \E line \in Lines :
        procs' = [procs EXCEPT ![p].errbuf = Append(@, line), ![p].nerr = @ + 1]
    /\ UNCHANGED <<ffmpeg_process, callers, pc, call>>

\* the child writes to its standard output, which nobody reads: the write
\* blocks once the pipe is full
ChildStdout(p) ==
    /\ procs[p].state = "running"
    /\ procs' = [procs EXCEPT ![p] =
                    IF @.outFill < PipeCap
                    THEN [@ EXCEPT !.outFill = @ + 1]
                    ELSE [@ EXCEPT !.state = "blocked"]]
    /\ UNCHANGED <<ffmpeg_process, callers, pc, call>>

\* the child closes its diagnostic stream and runs on
ChildCloseStderr(p) ==
    /\ procs[p].state = "running"
    /\ procs[p].errOpen
    /\ procs' = [procs EXCEPT ![p].errOpen = FALSE]
    /\ UNCHANGED <<ffmpeg_process, callers, pc, call>>

\* the child exits: its work is done, or SIGINT interrupted it
ChildExit(p) ==
    /\ \/ procs[p].state = "running"
       \/ procs[p].state = "blocked" /\ procs[p].sigint
    /\ procs' = [procs EXCEPT ![p] = Exited(@)]
    /\ UNCHANGED <<ffmpeg_process, callers, pc, call>>

\* ------------------------------------------------------------ specification
Start(t) ==
    \/ StartCall(t)
    \/ StartGuard(t)
    \/ StartPoll(t)
    \/ StartPopen(t)
    \/ StartIter(t)
    \/ StartReadline(t)
    \/ StartFinish(t)

Stop(t) ==
    \/ StopCall(t)
    \/ StopSendSignal(t)
    \/ StopWaitEnter(t)
    \/ StopWaitTick(t)
    \/ StopWaitDone(t)
    \/ StopWaitTimeout(t)
    \/ StopKill(t)
    \/ StopKillWaitEnter(t)
    \/ StopKillWaitDone(t)
    \/ StopFinally(t)

Child(p) ==
    \/ ChildStderr(p)
    \/ ChildStdout(p)
    \/ ChildCloseStderr(p)
    \/ ChildExit(p)

Next ==
    \/ \E t \in Threads : Start(t) \/ Stop(t)
    \/ \E p \in Pids : Child(p)

\* one script thread: the calls follow one another
Spec == Init /\ [][Next]_vars

\* two script runs that overlap, one button each, share the module-level handle
InitConc == InitWith({1, 2})
Once(t) == call[t].fn = "none"
NextConc ==
    \/ \E t \in Threads :
          \/ Once(t) /\ StartCall(t)
          \/ Once(t) /\ StopCall(t)
          \/ StartGuard(t)
          \/ StartPoll(t)
          \/ StartPopen(t)
          \/ StartIter(t)
          \/ StartReadline(t)
          \/ StartFinish(t)
          \/ StopSendSignal(t)
          \/ StopWaitEnter(t)
          \/ StopWaitTick(t)
          \/ StopWaitDone(t)
          \/ StopWaitTimeout(t)
          \/ StopKill(t)
          \/ StopKillWaitEnter(t)
          \/ StopKillWaitDone(t)
          \/ StopFinally(t)
    \/ \E p \in Pids : Child(p)
SpecConc == InitConc /\ [][NextConc]_vars

\* one Run Command on a fresh page, from the click to its return, over the
\* whole form; the child says nothing and ends
FirstCall(t) == Once(t) /\ StartWith(t, AllForms)
NextCmd ==
    \/ \E t \in Threads :
          \/ FirstCall(t)
          \/ StartGuard(t)
          \/ StartPopen(t)
          \/ StartIter(t)
          \/ StartReadline(t)
          \/ StartFinish(t)
    \/ \E p \in Pids : ChildCloseStderr(p) \/ ChildExit(p)
SpecCmd == Init /\ [][NextCmd]_vars

\* the script thread runs on while it can, and the child ends unless it is blocked
Fairness ==
    /\ \A t \in Threads :
          WF_vars(StartGuard(t) \/ StartPoll(t) \/ StartPopen(t) \/ StartIter(t)
                    \/ StartReadline(t) \/ StartFinish(t))
    /\ \A p \in Pids : WF_vars(ChildExit(p))
SpecLive == Init /\ [][Next]_vars /\ Fairness

\* ============================================================== properties
Started(t) == pc[t] = "idle" /\ call[t].fn = "start"
Stopped(t) == pc[t] = "idle" /\ call[t].fn = "stop"
AliveSet == {p \in Pids : Alive(p)}
Success == "Command executed successfully."

\* C1: whatever start_ffmpeg and stop_ffmpeg calls were made, failed ones
\* included, at most one child spawned by start_ffmpeg is alive.
C1_AtMostOneAlive == Cardinality(AliveSet) <= 1

\* C2: stop_ffmpeg with a handle waits only after SIGINT went to the child
\* (a child that had exited gets none), waits at most WaitTimeout, and calls
\* kill only after the signal was sent and the wait ran out with the child
\* still there.
C2_GracefulThenForced ==
    \A t \in Threads :
        /\ call[t].elapsed <= WaitTimeout
        /\ pc[t] \in {"wait", "waiting"} =>
              /\ call[t].sent \/ ~Alive(call[t].entry)
              /\ ~call[t].expired
        /\ pc[t] \in {"kill", "kwait", "kwaiting"} =>
              call[t].sent /\ call[t].expired /\ call[t].elapsed = WaitTimeout
        /\ call[t].expired => call[t].sent /\ call[t].fn = "stop"

\* a stop that timed out has called kill and waits for the child it killed
C2_Witness ==
    \E t \in Threads : pc[t] = "kwait" /\ call[t].expired /\ AliveSet = {}

Refused(t) == call[t].output = AlreadyRunning
Spawned(t) == call[t].spawned # None /\ ffmpeg_process = call[t].spawned
SpawnFailed(t) ==
    /\ call[t].output = "An error occurred: " \o SpawnError
    /\ call[t].spawned = None
    /\ ffmpeg_process = call[t].entry
    /\ call[t].cmd # ""

\* C4 as claimed: with the destination resolved, start_ffmpeg refuses exactly
\* when the handle names a running process, then spawns nothing and keeps the
\* handle; otherwise it spawns a child and the handle names that child.
C4_Guard ==
    \A t \in Threads :
        Started(t) /\ call[t].dns # "fail" =>
            /\ Refused(t) <=> call[t].guard = "running"
            /\ Refused(t) => call[t].spawned = None /\ ffmpeg_process = call[t].entry
            /\ ~Refused(t) => Spawned(t)

\* C4 amended: as claimed, except that without a running process the spawn is
\* attempted: it yields the child the handle then names, or it raises, and then
\* the error is returned with the command, no child exists and the handle is kept.
C4_GuardOrSpawnError ==
    \A t \in Threads :
        Started(t) /\ call[t].dns # "fail" =>
            /\ Refused(t) <=> call[t].guard = "running"
            /\ Refused(t) => call[t].spawned = None /\ ffmpeg_process = call[t].entry
            /\ ~Refused(t) => Spawned(t) \/ SpawnFailed(t)

\* a refusal: the stream started earlier is still running and still tracked
C4_Witness ==
    \E t \in Threads :
        /\ Started(t) /\ Refused(t)
        /\ call[t].entry # None /\ Alive(call[t].entry)
        /\ ffmpeg_process = call[t].entry

\* C5: once stop_ffmpeg has returned from a call that found a handle, the
\* handle is cleared and the process it named has exited.
C5_StoppedMeansExited ==
    \A t \in Threads :
        Stopped(t) /\ call[t].entry # None =>
            ffmpeg_process = None /\ ~Alive(call[t].entry)

\* C6, the claim's own reading of the command, written out as text
ExpectedSize(label) ==
    CASE label = "720p"  -> "1280x720"
      [] label = "480p"  -> "854x480"
      [] label = "360p"  -> "640x360"
      [] label = "180p"  -> "320x180"
      [] label = "1080p" -> "1920x1080"
      [] label = "4K"    -> "3840x2160"
      [] OTHER           -> "1280x720"
ExpectedRate(fps) ==
    CASE fps = 24 -> " -r 24" [] fps = 30 -> " -r 30" [] fps = 60 -> " -r 60" [] fps = 0 -> ""
ExpectedAudio(option) ==
    CASE Str(option) = "Copy Audio from File" -> " -c:a copy"
      [] Str(option) = "1|128k" -> " -ac 1 -b:a 128k"
      [] Str(option) = "2|128k" -> " -ac 2 -b:a 128k"
      [] Str(option) = "2|256k" -> " -ac 2 -b:a 256k"
ExpectedLogo(f) ==
    IF f.enable_logo
    THEN " -i " \o f.logo_url \o " -filter_complex [1]scale=iw*0.6:-1[wm];[0][wm]"
            \o f.overlay_settings
    ELSE ""
ExpectedString(f, destination) ==
    "ffmpeg -re -y -i " \o f.video_url \o ExpectedLogo(f)
      \o " -s " \o ExpectedSize(f.resolution) \o ExpectedRate(f.fps)
      \o ExpectedAudio(f.audio_option)
      \o " -ar 44100 -pix_fmt yuv420p -tune zerolatency -maxrate 2000k"
      \o " -preset veryfast -vcodec libx264 -ab 128k -vb 660k -f flv " \o destination
ExpectedLen(f) ==
    5 + (IF f.enable_logo THEN 4 ELSE 0) + 2 + (IF f.fps # 0 THEN 2 ELSE 0)
      + (IF Str(f.audio_option) = "Copy Audio from File" THEN 2 ELSE 4) + 18 + 1

C7_Step ==
    \A t \in Threads :
        pc[t] = "idle" /\ call'[t] # call[t] /\ call'[t].fn = "start" /\ call'[t].dns = "fail"
            => pc'[t] = "idle" /\ UNCHANGED <<ffmpeg_process, procs>>

C7_Returned ==
    \A t \in Threads :
        Started(t) /\ call[t].dns = "fail" =>
            /\ call[t].result = "return"
            /\ call[t].output = "Failed to resolve hostname: h"
            /\ call[t].logs = "" /\ call[t].cmd = ""
            /\ call[t].spawned = None /\ call[t].guard = "none"
            /\ ffmpeg_process = call[t].entry

\* C7: when the host of an rtmp:// or rtmps:// destination does not resolve,
\* start_ffmpeg returns the error with empty logs and no command, spawns
\* nothing and leaves the handle (and the stream it names) as it was.
C7_ResolveFailure == C7_Returned /\ [][C7_Step /\ C7_Returned']_vars

\* the lookup failed while a stream was running: it runs on, still tracked
C7_Witness ==
    \E t \in Threads :
        /\ Started(t) /\ call[t].dns = "fail"
        /\ ffmpeg_process # None /\ Alive(ffmpeg_process)

\* the step of a stop_ffmpeg call that finds no handle is its only step and
\* changes nothing but the answer
C8_Step ==
    \A t \in Threads :
        pc[t] = "idle" /\ ffmpeg_process = None /\ call'[t] # call[t] /\ call'[t].fn = "stop"
            => /\ UNCHANGED <<ffmpeg_process, procs, pc>>
               /\ call'[t].output = "No stream is running."

C8_Returned ==
    \A t \in Threads :
        /\ Stopped(t) /\ call[t].entry = None =>
              /\ call[t].output = "No stream is running."
              /\ call[t].result = "return"
              /\ ~call[t].sent
              /\ ffmpeg_process = None
        /\ call[t].fn = "stop" /\ call[t].prev = "stop" =>
              call[t].entry = None /\ pc[t] = "idle"

\* C8: stop_ffmpeg without a handle answers 'No stream is running.', sends no
\* signal and changes no state; a stop_ffmpeg right after a stop_ffmpeg is
\* such a call, so it leaves the state as the first one left it.
C8_StopIdempotent == C8_Returned /\ [][C8_Step /\ C8_Returned']_vars

\* a second stop right after a stop that had a running stream to stop
C8_Witness ==
    \E t \in Threads :
        /\ Stopped(t) /\ call[t].prev = "stop"
        /\ call[t].output = "No stream is running."
        /\ \E p \in Pids : procs[p].state = "exited"

\* C9: with calls overlapping, a start_ffmpeg call that spawned a child
\* returns its success output, and no two start_ffmpeg calls have both
\* spawned a child that is alive.
C9_SafeUnderInterleaving ==
    /\ \A t \in Threads :
          Started(t) /\ call[t].spawned # None =>
              /\ call[t].result = "return"
              /\ call[t].output \in {Success, Success \o "\nStreaming in progress..."}
    /\ \A t, u \in Threads :
          t # u /\ call[t].spawned # None /\ call[u].spawned # None =>
              ~(Alive(call[t].spawned) /\ Alive(call[u].spawned))

\* C10: a start_ffmpeg call that is reading the diagnostic stream returns.
C10_StartReturns == \A t \in Threads : (pc[t] = "read") ~> (pc[t] = "idle")

====
